---- MODULE Spec2Model ----
(***************************************************************************)
(* Model of the appointment backend's slot computation: the schedule rule  *)
(* store (grafik), the appointment store, and get_available_time_slots     *)
(* with its helpers, translated from app/services/grafik_service.py,       *)
(* app/services/appointment_service.py and app/schemas/grafik.py; and of   *)
(* the operations around it: the payment webhook over the subscription     *)
(* table, the reminder job and the login codes.                            *)
(*                                                                         *)
(* Strings are modelled as sequences of character codes so that parsing,   *)
(* formatting and string comparison are computed, not assumed.             *)
(***************************************************************************)
EXTENDS Integers, Sequences, FiniteSets, TLC

VARIABLES grafik, nextGrafikId, appointments, nextAppointmentId, response, pc, seen,
          subscription, deliveries, login_codes, outbox, now

\* The tables and the environment outside the slot pipeline: the subscription
\* and login_codes tables, the webhook deliveries the payment provider made,
\* the Telegram messages sent, and the clock (seconds).
others == <<subscription, deliveries, login_codes, outbox, now>>

vars == <<grafik, nextGrafikId, appointments, nextAppointmentId, response, pc, seen, others>>

OthersEmpty ==
    /\ subscription = {}
    /\ deliveries = <<>>
    /\ login_codes = {}
    /\ outbox = <<>>
    /\ now = 0

(***************************************************************************)
(* Character codes and strings.                                            *)
(***************************************************************************)
Colon == 58
Dot == 46
Zero == 48

IsDigit(c) == c \in 48..57
DigitVal(c) == c - Zero

\* Python str comparison: lexicographic by code point.
RECURSIVE StrLess(_, _)
StrLess(a, b) ==
    IF b = <<>> THEN FALSE
    ELSE IF a = <<>> THEN TRUE
    ELSE IF a[1] # b[1] THEN a[1] < b[1]
    ELSE StrLess(Tail(a), Tail(b))

StrLeq(a, b) == a = b \/ StrLess(a, b)

\* str.split(sep): the parts between separators (always at least one part).
RECURSIVE SplitFrom(_, _, _, _)
SplitFrom(s, sep, cur, acc) ==
    IF s = <<>> THEN Append(acc, cur)
    ELSE IF s[1] = sep THEN SplitFrom(Tail(s), sep, <<>>, Append(acc, cur))
    ELSE SplitFrom(Tail(s), sep, Append(cur, s[1]), acc)

Split(s, sep) == SplitFrom(s, sep, <<>>, <<>>)

\* int(part) succeeds on a non-empty run of digits (the only characters of
\* the modelled alphabet it accepts).
IsIntStr(p) == p # <<>> /\ \A i \in 1..Len(p) : IsDigit(p[i])

RECURSIVE IntVal(_)
IntVal(p) == IF p = <<>> THEN 0 ELSE IntVal(SubSeq(p, 1, Len(p) - 1)) * 10 + DigitVal(p[Len(p)])

(***************************************************************************)
(* datetime.strptime(s, "%H:%M") and datetime.strftime("%H:%M").           *)
(* A datetime is the number of minutes since 1900-01-01 00:00.             *)
(***************************************************************************)
Invalid == -1
MinutesPerDay == 1440

HourOK2(a, b) == (a = 50 /\ b \in 48..51) \/ (a \in 48..49 /\ IsDigit(b))

Strptime(s) ==
    IF Len(s) = 5 /\ s[3] = Colon /\ HourOK2(s[1], s[2]) /\ s[4] \in 48..53 /\ IsDigit(s[5])
    THEN (DigitVal(s[1]) * 10 + DigitVal(s[2])) * 60 + DigitVal(s[4]) * 10 + DigitVal(s[5])
    ELSE IF Len(s) = 4 /\ s[3] = Colon /\ HourOK2(s[1], s[2]) /\ IsDigit(s[4])
    THEN (DigitVal(s[1]) * 10 + DigitVal(s[2])) * 60 + DigitVal(s[4])
    ELSE IF Len(s) = 4 /\ s[2] = Colon /\ IsDigit(s[1]) /\ s[3] \in 48..53 /\ IsDigit(s[4])
    THEN DigitVal(s[1]) * 60 + DigitVal(s[3]) * 10 + DigitVal(s[4])
    ELSE IF Len(s) = 3 /\ s[2] = Colon /\ IsDigit(s[1]) /\ IsDigit(s[3])
    THEN DigitVal(s[1]) * 60 + DigitVal(s[3])
    ELSE Invalid

\* strftime("%H:%M") keeps the time of day only: the day is dropped.
Strftime(t) ==
    LET m == t % MinutesPerDay
        h == m \div 60
        mi == m % 60
    IN  <<Zero + (h \div 10), Zero + (h % 10), Colon, Zero + (mi \div 10), Zero + (mi % 10)>>

\* The canonical text "HH:MM" of a time of day.
HM(h, mi) == Strftime(h * 60 + mi)

(***************************************************************************)
(* GrafikService._generate_time_slots                                      *)
(***************************************************************************)
\* Mutant: the loop stops one slot early when the last slot ends exactly at
\* the end of the working day.
RECURSIVE GenLoopStrict(_, _, _, _)
GenLoopStrict(current_time, end_dt, duration_minutes, slots) ==
    IF current_time + duration_minutes < end_dt
    THEN GenLoopStrict(current_time + duration_minutes, end_dt, duration_minutes,
                       Append(slots, Strftime(current_time)))
    ELSE slots

RECURSIVE GenLoop(_, _, _, _)
GenLoop(current_time, end_dt, duration_minutes, slots) ==
    IF current_time + duration_minutes <= end_dt
    THEN GenLoop(current_time + duration_minutes, end_dt, duration_minutes,
                 Append(slots, Strftime(current_time)))
    ELSE slots

\* A parse error is caught and [] returned.  The caller never passes 0; with
\* a negative duration the loop either does not run or walks back until
\* datetime overflows, which is caught as well: [] in both cases.
generate_time_slots(start_time, end_time, duration_minutes) ==
    LET start_dt == Strptime(start_time)
        end_dt == Strptime(end_time)
    IN  IF start_dt = Invalid \/ end_dt = Invalid THEN <<>>
        ELSE IF duration_minutes <= 0 THEN <<>>
        ELSE GenLoop(start_dt, end_dt, duration_minutes, <<>>)

(***************************************************************************)
(* datetime.date(year, month, day).isoweekday() of a "DD.MM.YYYY" string,  *)
(* as get_available_time_slots derives it.                                 *)
(***************************************************************************)
IsLeap(y) == y % 4 = 0 /\ (y % 100 # 0 \/ y % 400 = 0)

DaysInMonth(y, m) ==
    IF m = 2 THEN (IF IsLeap(y) THEN 29 ELSE 28)
    ELSE IF m \in {4, 6, 9, 11} THEN 30 ELSE 31

RECURSIVE DaysBeforeMonth(_, _)
DaysBeforeMonth(y, m) == IF m = 1 THEN 0 ELSE DaysBeforeMonth(y, m - 1) + DaysInMonth(y, m - 1)

DaysBeforeYear(y) ==
    LET p == y - 1 IN p * 365 + (p \div 4) - (p \div 100) + (p \div 400)

ToOrdinal(y, m, d) == DaysBeforeYear(y) + DaysBeforeMonth(y, m) + d

\* day, month, year = map(int, date.split('.')); dt(year, month, day)
DateIsValid(date) ==
    LET parts == Split(date, Dot)
    IN  /\ Len(parts) = 3
        /\ \A i \in 1..3 : IsIntStr(parts[i])
        /\ LET d == IntVal(parts[1])
               m == IntVal(parts[2])
               y == IntVal(parts[3])
           IN  /\ y \in 1..9999
               /\ m \in 1..12
               /\ d >= 1
               /\ d <= DaysInMonth(y, m)

IsoWeekday(date) ==
    LET parts == Split(date, Dot)
        o == ToOrdinal(IntVal(parts[3]), IntVal(parts[2]), IntVal(parts[1]))
    IN  IF o % 7 = 0 THEN 7 ELSE o % 7

(***************************************************************************)
(* Rows.  NULL is 0 for an integer column and <<>> for a string or array   *)
(* column (the code tests these columns by truthiness only, so NULL, ""    *)
(* and [] are not told apart).                                             *)
(***************************************************************************)
NoDay == 0
NoStr == <<>>
NoService == 0

\* Mutant: the date lookup forgets the specific_date condition.
LookupMatchesAnyDate(G, specialist_id, day_of_week, specific_date, grafik_type) ==
    IF specific_date # NoStr
    THEN {g \in G : /\ g.specialist_id = specialist_id
                    /\ g.grafik_type = grafik_type}
    ELSE {g \in G : /\ g.specialist_id = specialist_id
                    /\ g.day_of_week = day_of_week
                    /\ g.grafik_type = grafik_type}

\* select(Grafik).where(...) of _get_grafik_by_day_date_and_type
LookupMatches(G, specialist_id, day_of_week, specific_date, grafik_type) ==
    IF specific_date # NoStr
    THEN {g \in G : /\ g.specialist_id = specialist_id
                    /\ g.specific_date = specific_date
                    /\ g.grafik_type = grafik_type}
    ELSE {g \in G : /\ g.specialist_id = specialist_id
                    /\ g.day_of_week = day_of_week
                    /\ g.grafik_type = grafik_type}

\* result.scalar_one_or_none(): the row, no row, or MultipleResultsFound.
NoRow == [id |-> 0]

\* Mutant: scalar_one() instead of scalar_one_or_none(), no row raises.
get_grafik_scalar_one(G, specialist_id, day_of_week, specific_date, grafik_type) ==
    LET m == LookupMatches(G, specialist_id, day_of_week, specific_date, grafik_type)
    IN  IF Cardinality(m) # 1 THEN [raised |-> TRUE, row |-> NoRow]
        ELSE [raised |-> FALSE, row |-> CHOOSE g \in m : TRUE]

get_grafik_by_day_date_and_type(G, specialist_id, day_of_week, specific_date, grafik_type) ==
    LET m == LookupMatches(G, specialist_id, day_of_week, specific_date, grafik_type)
    IN  IF Cardinality(m) > 1 THEN [raised |-> TRUE, row |-> NoRow]
        ELSE IF m = {} THEN [raised |-> FALSE, row |-> NoRow]
        ELSE [raised |-> FALSE, row |-> CHOOSE g \in m : TRUE]

(***************************************************************************)
(* GrafikService._get_busy_time_intervals                                  *)
(***************************************************************************)
\* The service table: duration of each service id (0: the column is NULL).
DefaultDuration == 60

ServiceDuration(service_id) ==
    CASE service_id = 1 -> 30
      [] service_id = 2 -> 45
      [] service_id = 3 -> 0
      [] OTHER -> 0

\* duration = 60 unless the appointment has a service with a duration
BookingDuration(a) ==
    IF a.service_id # NoService /\ ServiceDuration(a.service_id) # 0
    THEN ServiceDuration(a.service_id)
    ELSE DefaultDuration

\* The rows of the select, in id order.
RECURSIVE RowsById(_)
RowsById(S) ==
    IF S = {} THEN <<>>
    ELSE LET a == CHOOSE x \in S : \A y \in S : x.id <= y.id
         IN  <<a>> \o RowsById(S \ {a})

SelectAppointments(A, specialist_id, date) ==
    {a \in A : a.specialist_id = specialist_id /\ a.date = date}

get_busy_time_intervals(A, specialist_id, date) ==
    LET rows == RowsById(SelectAppointments(A, specialist_id, date))
    IN  IF \E i \in 1..Len(rows) : Strptime(rows[i].time) = Invalid
        THEN <<>>
        ELSE [i \in 1..Len(rows) |->
                LET start_dt == Strptime(rows[i].time)
                    end_dt == start_dt + BookingDuration(rows[i])
                IN  <<Strftime(start_dt), Strftime(end_dt)>>]

(***************************************************************************)
(* GrafikService._filter_overlapping_slots                                 *)
(***************************************************************************)
\* Mutant: closed intervals, touching counts as overlapping.
HasOverlapClosed(slot_time, busy_intervals, service_duration) ==
    LET slot_start == Strptime(slot_time)
        slot_end == slot_start + service_duration
    IN  \E i \in 1..Len(busy_intervals) :
            LET busy_start == Strptime(busy_intervals[i][1])
                busy_end == Strptime(busy_intervals[i][2])
            IN  slot_start <= busy_end /\ slot_end >= busy_start

HasOverlap(slot_time, busy_intervals, service_duration) ==
    LET slot_start == Strptime(slot_time)
        slot_end == slot_start + service_duration
    IN  \E i \in 1..Len(busy_intervals) :
            LET busy_start == Strptime(busy_intervals[i][1])
                busy_end == Strptime(busy_intervals[i][2])
            IN  slot_start < busy_end /\ slot_end > busy_start

\* Mutant: appends the re-formatted start time instead of the slot string.
RECURSIVE FilterLoopReformat(_, _, _)
FilterLoopReformat(slots, busy_intervals, service_duration) ==
    IF slots = <<>> THEN <<>>
    ELSE IF HasOverlap(Head(slots), busy_intervals, service_duration)
         THEN FilterLoopReformat(Tail(slots), busy_intervals, service_duration)
         ELSE <<Strftime(Strptime(Head(slots)))>>
                  \o FilterLoopReformat(Tail(slots), busy_intervals, service_duration)

RECURSIVE FilterLoop(_, _, _)
FilterLoop(slots, busy_intervals, service_duration) ==
    IF slots = <<>> THEN <<>>
    ELSE IF HasOverlap(Head(slots), busy_intervals, service_duration)
         THEN FilterLoop(Tail(slots), busy_intervals, service_duration)
         ELSE <<Head(slots)>> \o FilterLoop(Tail(slots), busy_intervals, service_duration)

\* An unparseable slot raises inside the loop; the handler returns slots.
filter_overlapping_slots(slots, busy_intervals, service_duration) ==
    IF \E i \in 1..Len(slots) : Strptime(slots[i]) = Invalid
    THEN slots
    ELSE FilterLoop(slots, busy_intervals, service_duration)

(***************************************************************************)
(* GrafikService.get_available_time_slots.  service_duration 0 stands for  *)
(* "not supplied" (the code tests it by truthiness), day_of_week 0 too.    *)
(* The result records what the call returned and what it looked at.        *)
(***************************************************************************)
Raised == [raised |-> TRUE, slots |-> <<>>, source |-> "error", rule |-> 0,
           work_lookup |-> FALSE, defined_slots |-> <<>>, busy_intervals |-> <<>>]

Filtered(A, specialist_id, date, service_duration, defined_slots, source, rule, work_lookup) ==
    LET busy_intervals == get_busy_time_intervals(A, specialist_id, date)
        free_slots == filter_overlapping_slots(defined_slots, busy_intervals,
                          IF service_duration # 0 THEN service_duration ELSE DefaultDuration)
    IN  [raised |-> FALSE, slots |-> free_slots, source |-> source, rule |-> rule,
         work_lookup |-> work_lookup, defined_slots |-> defined_slots,
         busy_intervals |-> busy_intervals]

\* Mutant: a missing duration is replaced by the default before generating.
FromWorkScheduleDefault(G, A, specialist_id, date, weekday, service_duration) ==
    LET w1 == get_grafik_by_day_date_and_type(G, specialist_id, NoDay, date, "work_schedule")
        w2 == get_grafik_by_day_date_and_type(G, specialist_id, weekday, NoStr, "work_schedule")
        duration == IF service_duration # 0 THEN service_duration ELSE DefaultDuration
    IN  IF w1.raised THEN Raised
        ELSE IF w1.row = NoRow /\ w2.raised THEN Raised
        ELSE LET work_grafik == IF w1.row # NoRow THEN w1.row ELSE w2.row
             IN  IF /\ work_grafik # NoRow
                    /\ work_grafik.start_time # NoStr
                    /\ work_grafik.end_time # NoStr
                 THEN Filtered(A, specialist_id, date, duration,
                               generate_time_slots(work_grafik.start_time,
                                                   work_grafik.end_time, duration),
                               "work_schedule", work_grafik.id, TRUE)
                 ELSE [raised |-> FALSE, slots |-> <<>>, source |-> "none", rule |-> 0,
                       work_lookup |-> TRUE, defined_slots |-> <<>>, busy_intervals |-> <<>>]

FromWorkSchedule(G, A, specialist_id, date, weekday, service_duration) ==
    LET w1 == get_grafik_by_day_date_and_type(G, specialist_id, NoDay, date, "work_schedule")
        w2 == get_grafik_by_day_date_and_type(G, specialist_id, weekday, NoStr, "work_schedule")
    IN  IF w1.raised THEN Raised
        ELSE IF w1.row = NoRow /\ w2.raised THEN Raised
        ELSE LET work_grafik == IF w1.row # NoRow THEN w1.row ELSE w2.row
             IN  IF /\ work_grafik # NoRow
                    /\ work_grafik.start_time # NoStr
                    /\ work_grafik.end_time # NoStr
                    /\ service_duration # 0
                 THEN Filtered(A, specialist_id, date, service_duration,
                               generate_time_slots(work_grafik.start_time,
                                                   work_grafik.end_time, service_duration),
                               "work_schedule", work_grafik.id, TRUE)
                 ELSE [raised |-> FALSE, slots |-> <<>>, source |-> "none", rule |-> 0,
                       work_lookup |-> TRUE, defined_slots |-> <<>>, busy_intervals |-> <<>>]

\* Mutant: the supplied day_of_week is ignored, the date's weekday is used.
get_available_time_slots_no_override(G, A, specialist_id, date, day_of_week, service_duration) ==
    IF ~DateIsValid(date) THEN Raised
    ELSE
    LET weekday == IsoWeekday(date)
        g1 == get_grafik_by_day_date_and_type(G, specialist_id, NoDay, date, "available_slots")
        g2 == get_grafik_by_day_date_and_type(G, specialist_id, weekday, NoStr, "available_slots")
    IN  IF g1.raised THEN Raised
        ELSE IF g1.row = NoRow /\ g2.raised THEN Raised
        ELSE LET row == IF g1.row # NoRow THEN g1.row ELSE g2.row
             IN  IF row # NoRow /\ row.time_slots # NoStr
                 THEN Filtered(A, specialist_id, date, service_duration, row.time_slots,
                               "available_slots", row.id, FALSE)
                 ELSE FromWorkSchedule(G, A, specialist_id, date, weekday, service_duration)

get_available_time_slots(G, A, specialist_id, date, day_of_week, service_duration) ==
    IF ~DateIsValid(date) THEN Raised
    ELSE
    LET computed_weekday == IsoWeekday(date)
        weekday == IF day_of_week # 0 THEN day_of_week ELSE computed_weekday
        g1 == get_grafik_by_day_date_and_type(G, specialist_id, NoDay, date, "available_slots")
        g2 == get_grafik_by_day_date_and_type(G, specialist_id, weekday, NoStr, "available_slots")
    IN  IF g1.raised THEN Raised
        ELSE IF g1.row = NoRow /\ g2.raised THEN Raised
        ELSE LET row == IF g1.row # NoRow THEN g1.row ELSE g2.row
             IN  IF row # NoRow /\ row.time_slots # NoStr
                 THEN Filtered(A, specialist_id, date, service_duration, row.time_slots,
                               "available_slots", row.id, FALSE)
                 ELSE FromWorkSchedule(G, A, specialist_id, date, weekday, service_duration)

(***************************************************************************)
(* Request validation of app/schemas/grafik.py.                            *)
(***************************************************************************)
\* validate_date_format: DD.MM.YYYY with range checks only
validate_date_format(v) ==
    \/ v = NoStr
    \/ LET parts == Split(v, Dot)
       IN  /\ Len(parts) = 3
           /\ \A i \in 1..3 : IsIntStr(parts[i])
           /\ IntVal(parts[1]) \in 1..31
           /\ IntVal(parts[2]) \in 1..12
           /\ IntVal(parts[3]) \in 1900..2100

\* hours, minutes = map(int, v.split(':')) with range checks
TimeFormatOK(v) ==
    LET parts == Split(v, Colon)
    IN  /\ Len(parts) = 2
        /\ IsIntStr(parts[1])
        /\ IsIntStr(parts[2])
        /\ IntVal(parts[1]) \in 0..23
        /\ IntVal(parts[2]) \in 0..59

validate_time_format(v) == v = NoStr \/ TimeFormatOK(v)

\* "end_time must be greater than start_time": compared as strings
validate_end_time(start_time, end_time) ==
    ~(end_time # NoStr /\ start_time # NoStr /\ StrLeq(end_time, start_time))

\* v == sorted(v): sorted as strings, equal neighbours allowed
IsSortedStr(v) == \A i \in 1..(Len(v) - 1) : ~StrLess(v[i + 1], v[i])

validate_time_slots(v) ==
    /\ v # <<>>
    /\ \A i \in 1..Len(v) : TimeFormatOK(v[i])
    /\ IsSortedStr(v)

\* validate_day_or_date never sees both fields in `values` (the field being
\* validated is not in it), so it rejects nothing; Field(ge=1, le=7) remains.
WorkScheduleCreateValid(data) ==
    /\ data.day_of_week \in 0..7
    /\ validate_date_format(data.specific_date)
    /\ validate_time_format(data.start_time)
    /\ validate_time_format(data.end_time)
    /\ validate_end_time(data.start_time, data.end_time)

AvailableSlotsCreateValid(data) ==
    /\ data.day_of_week \in 0..7
    /\ validate_date_format(data.specific_date)
    /\ validate_time_slots(data.time_slots)

(***************************************************************************)
(* Bounds and the values requests are drawn from.                          *)
(***************************************************************************)
MaxGrafikRows == 2

\* "DD.MM.YYYY"
DateStr(d, m, y) ==
    <<Zero + (d \div 10), Zero + (d % 10), Dot, Zero + (m \div 10), Zero + (m % 10), Dot,
      Zero + (y \div 1000), Zero + ((y \div 100) % 10), Zero + ((y \div 10) % 10), Zero + (y % 10)>>

D1 == DateStr(6, 1, 2025)
D2 == DateStr(7, 1, 2025)

\* "9:00", accepted by the validators and by strptime, sorts after "10:00"
T9 == <<57, 58, 48, 48>>

Specialist == "s1"

DayInputs == {0, 1}
DateInputs == {NoStr, D1}
WorkHoursInputs == {<<HM(9, 0), HM(11, 0)>>, <<HM(10, 0), HM(12, 0)>>, <<HM(11, 0), HM(9, 0)>>}
SlotListInputs == {<<HM(10, 0), T9>>, <<HM(9, 30), HM(9, 0)>>}

WorkScheduleInputs ==
    {[specialist_id |-> Specialist, day_of_week |-> d, specific_date |-> sd,
      start_time |-> t[1], end_time |-> t[2]] :
        d \in DayInputs, sd \in DateInputs, t \in WorkHoursInputs}

AvailableSlotsInputs ==
    {[specialist_id |-> Specialist, day_of_week |-> d, specific_date |-> sd, time_slots |-> l] :
        d \in DayInputs, sd \in DateInputs, l \in SlotListInputs}

\* Update bodies: the fields that were set (exclude_unset), null included.
WorkScheduleUpdateInputs ==
    {[day_of_week |-> d] : d \in DayInputs} \cup {[specific_date |-> sd] : sd \in DateInputs}

AvailableSlotsUpdateInputs ==
    {[day_of_week |-> d] : d \in DayInputs} \cup {[specific_date |-> sd] : sd \in DateInputs}
        \cup {[time_slots |-> <<>>]}

\* The update bodies the rule store specification draws from (SpecScope
\* draws from all of them).
StoreWorkUpdateInputs == {[day_of_week |-> 1]}
StoreSlotsUpdateInputs == {[specific_date |-> D1], [time_slots |-> <<>>]}

\* (date, day_of_week) of a query: no override on a Monday and on a Tuesday,
\* and the Tuesday queried as a Monday.
QueryScopeInputs == {<<D1, 0>>, <<D2, 0>>, <<D2, 1>>}
QueryDurationInputs == {0, 60}

(***************************************************************************)
(* The rule operations of GrafikService.                                   *)
(***************************************************************************)
Done(op, status) == [op |-> op, status |-> status]

\* for field, value in update_data.items(): setattr(grafik, field, value)
ApplyUpdate(row, update_data) ==
    [f \in DOMAIN row |-> IF f \in DOMAIN update_data THEN update_data[f] ELSE row[f]]

create_work_schedule(data) ==
    /\ LET existing == get_grafik_by_day_date_and_type(grafik, data.specialist_id,
                           data.day_of_week, data.specific_date, "work_schedule")
       IN  IF ~WorkScheduleCreateValid(data)
           THEN /\ response' = Done("create_work_schedule", "invalid")
                /\ UNCHANGED <<grafik, nextGrafikId>>
           ELSE IF existing.raised
           THEN /\ response' = Done("create_work_schedule", "error")
                /\ UNCHANGED <<grafik, nextGrafikId>>
           ELSE IF existing.row # NoRow
           THEN /\ response' = Done("create_work_schedule", "ValueError")
                /\ UNCHANGED <<grafik, nextGrafikId>>
           ELSE /\ nextGrafikId <= MaxGrafikRows
                /\ grafik' = grafik \cup
                      {[id |-> nextGrafikId,
                        specialist_id |-> data.specialist_id,
                        day_of_week |-> data.day_of_week,
                        specific_date |-> data.specific_date,
                        grafik_type |-> "work_schedule",
                        start_time |-> data.start_time,
                        end_time |-> data.end_time,
                        time_slots |-> <<>>]}
                /\ nextGrafikId' = nextGrafikId + 1
                /\ response' = Done("create_work_schedule", "ok")
    /\ UNCHANGED <<appointments, nextAppointmentId, pc, seen, others>>

create_available_slots(data) ==
    /\ LET existing == get_grafik_by_day_date_and_type(grafik, data.specialist_id,
                           data.day_of_week, data.specific_date, "available_slots")
       IN  IF ~AvailableSlotsCreateValid(data)
           THEN /\ response' = Done("create_available_slots", "invalid")
                /\ UNCHANGED <<grafik, nextGrafikId>>
           ELSE IF existing.raised
           THEN /\ response' = Done("create_available_slots", "error")
                /\ UNCHANGED <<grafik, nextGrafikId>>
           ELSE IF existing.row # NoRow
           THEN /\ response' = Done("create_available_slots", "ValueError")
                /\ UNCHANGED <<grafik, nextGrafikId>>
           ELSE /\ nextGrafikId <= MaxGrafikRows
                /\ grafik' = grafik \cup
                      {[id |-> nextGrafikId,
                        specialist_id |-> data.specialist_id,
                        day_of_week |-> data.day_of_week,
                        specific_date |-> data.specific_date,
                        grafik_type |-> "available_slots",
                        start_time |-> NoStr,
                        end_time |-> NoStr,
                        time_slots |-> data.time_slots]}
                /\ nextGrafikId' = nextGrafikId + 1
                /\ response' = Done("create_available_slots", "ok")
    /\ UNCHANGED <<appointments, nextAppointmentId, pc, seen, others>>

update_work_schedule(grafik_id, update_data) ==
    /\ LET found == {g \in grafik : g.id = grafik_id}
       IN  IF found = {} \/ (\E g \in found : g.grafik_type # "work_schedule")
           THEN /\ response' = Done("update_work_schedule", "ValueError")
                /\ UNCHANGED grafik
           ELSE /\ grafik' = (grafik \ found) \cup {ApplyUpdate(g, update_data) : g \in found}
                /\ response' = Done("update_work_schedule", "ok")
    /\ UNCHANGED <<nextGrafikId, appointments, nextAppointmentId, pc, seen, others>>

update_available_slots(grafik_id, update_data) ==
    /\ LET found == {g \in grafik : g.id = grafik_id}
       IN  IF found = {} \/ (\E g \in found : g.grafik_type # "available_slots")
           THEN /\ response' = Done("update_available_slots", "ValueError")
                /\ UNCHANGED grafik
           ELSE /\ grafik' = (grafik \ found) \cup {ApplyUpdate(g, update_data) : g \in found}
                /\ response' = Done("update_available_slots", "ok")
    /\ UNCHANGED <<nextGrafikId, appointments, nextAppointmentId, pc, seen, others>>

delete_grafik(grafik_id) ==
    /\ LET found == {g \in grafik : g.id = grafik_id}
       IN  IF found = {}
           THEN /\ response' = Done("delete_grafik", "ValueError")
                /\ UNCHANGED grafik
           ELSE /\ grafik' = grafik \ found
                /\ response' = Done("delete_grafik", "ok")
    /\ UNCHANGED <<nextGrafikId, appointments, nextAppointmentId, pc, seen, others>>

\* except Exception: raise HTTPException(status_code=500); else the list
HttpStatus(result) == IF result.raised THEN 500 ELSE 200

\* Mutant: the query holds the first free slot by storing an appointment.
get_available_time_holding(specialist_id, date, day_of_week, service_duration) ==
    LET result == get_available_time_slots(grafik, appointments, specialist_id,
                                           date, day_of_week, service_duration)
    IN  /\ response' = [op |-> "get_available_time_slots",
                        specialist_id |-> specialist_id,
                        date |-> date,
                        day_of_week |-> day_of_week,
                        service_duration |-> service_duration,
                        result |-> result,
                        status |-> HttpStatus(result)]
        /\ IF result.slots # <<>>
           THEN /\ appointments' = appointments \cup
                       {[id |-> nextAppointmentId, specialist_id |-> specialist_id,
                         date |-> date, time |-> result.slots[1],
                         service_id |-> NoService, status |-> "active"]}
                /\ nextAppointmentId' = nextAppointmentId + 1
           ELSE UNCHANGED <<appointments, nextAppointmentId>>
        /\ UNCHANGED <<grafik, nextGrafikId, pc, seen, others>>

\* GET /grafik/available-time
get_available_time(specialist_id, date, day_of_week, service_duration) ==
    /\ LET result == get_available_time_slots(grafik, appointments, specialist_id,
                                              date, day_of_week, service_duration)
       IN  response' = [op |-> "get_available_time_slots",
                        specialist_id |-> specialist_id,
                        date |-> date,
                        day_of_week |-> day_of_week,
                        service_duration |-> service_duration,
                        result |-> result,
                        status |-> HttpStatus(result)]
    /\ UNCHANGED <<grafik, nextGrafikId, appointments, nextAppointmentId, pc, seen, others>>

(***************************************************************************)
(* Specification of the rule store: rules are created, updated, deleted    *)
(* and queried; there are no appointments.                                 *)
(***************************************************************************)
Idle == [op |-> "none", status |-> "ok"]

\* The appointment table the rule store is exercised against: empty, or one
\* active booking on D1 at 09:00 without a service (60 minutes).
BookingSetups ==
    {{}, {[id |-> 1, specialist_id |-> Specialist, date |-> D1, time |-> HM(9, 0),
           service_id |-> NoService, status |-> "active"]}}

Init ==
    /\ grafik = {}
    /\ nextGrafikId = 1
    /\ appointments \in BookingSetups
    /\ nextAppointmentId = Cardinality(appointments) + 1
    /\ response = Idle
    /\ pc = <<>>
    /\ seen = <<>>
    /\ OthersEmpty

\* Once MaxGrafikRows rules were stored no further create is attempted here
\* (SpecScope attempts them).
Next ==
    \/ \E data \in WorkScheduleInputs :
           nextGrafikId <= MaxGrafikRows /\ create_work_schedule(data)
    \/ \E data \in AvailableSlotsInputs :
           nextGrafikId <= MaxGrafikRows /\ create_available_slots(data)
    \/ \E id \in 1..MaxGrafikRows, u \in StoreWorkUpdateInputs : update_work_schedule(id, u)
    \/ \E id \in 1..MaxGrafikRows, u \in StoreSlotsUpdateInputs : update_available_slots(id, u)
    \/ \E id \in 1..MaxGrafikRows : delete_grafik(id)
    \/ \E q \in QueryScopeInputs, d \in QueryDurationInputs :
           get_available_time(Specialist, q[1], q[2], d)

Spec == Init /\ [][Next]_vars

(***************************************************************************)
(* Specification of the rule scopes: rules are created, re-scoped by       *)
(* updates and deleted, and creates are attempted whatever the store       *)
(* holds; nothing is queried.                                              *)
(***************************************************************************)
InitScope ==
    /\ grafik = {}
    /\ nextGrafikId = 1
    /\ appointments = {}
    /\ nextAppointmentId = 1
    /\ response = Idle
    /\ pc = <<>>
    /\ seen = <<>>
    /\ OthersEmpty

NextScope ==
    \/ \E data \in WorkScheduleInputs : create_work_schedule(data)
    \/ \E data \in AvailableSlotsInputs : create_available_slots(data)
    \/ \E id \in 1..MaxGrafikRows, u \in WorkScheduleUpdateInputs : update_work_schedule(id, u)
    \/ \E id \in 1..MaxGrafikRows, u \in AvailableSlotsUpdateInputs : update_available_slots(id, u)
    \/ \E id \in 1..MaxGrafikRows : delete_grafik(id)

SpecScope == InitScope /\ [][NextScope]_vars

(***************************************************************************)
(* Specification of _generate_time_slots alone, on drawn arguments.        *)
(***************************************************************************)
GenTimeInputs ==
    {HM(0, 0), HM(9, 0), T9, HM(9, 30), HM(10, 0), HM(11, 0), HM(18, 0), HM(23, 30), HM(23, 59)}
GenDurationInputs == {25, 30, 45, 60, 90}

call_generate_time_slots(start_time, end_time, duration_minutes) ==
    /\ response' = [op |-> "generate_time_slots",
                    start_time |-> start_time,
                    end_time |-> end_time,
                    duration_minutes |-> duration_minutes,
                    result |-> generate_time_slots(start_time, end_time, duration_minutes)]
    /\ UNCHANGED <<grafik, nextGrafikId, appointments, nextAppointmentId, pc, seen, others>>

InitGen ==
    /\ grafik = {}
    /\ nextGrafikId = 1
    /\ appointments = {}
    /\ nextAppointmentId = 1
    /\ response = Idle
    /\ pc = <<>>
    /\ seen = <<>>
    /\ OthersEmpty

NextGen ==
    \E st \in GenTimeInputs, en \in GenTimeInputs, d \in GenDurationInputs :
        call_generate_time_slots(st, en, d)

SpecGen == InitGen /\ [][NextGen]_vars

(***************************************************************************)
(* The appointment operations of AppointmentService.                       *)
(***************************************************************************)
MaxAppointments == 2

AppointmentTimeInputs == {HM(9, 0), HM(9, 30), HM(23, 0)}
ServiceInputs == {NoService, 1}

AppointmentInputs ==
    {[specialist_id |-> Specialist, date |-> D1, time |-> t, service_id |-> sv,
      status |-> "active"] : t \in AppointmentTimeInputs, sv \in ServiceInputs}

\* Mutant: the insert is refused when an active appointment of the same
\* specialist, date and time exists (a unique constraint).
InsertAppointmentUnique(data) ==
    IF \E a \in appointments : /\ a.specialist_id = data.specialist_id
                               /\ a.date = data.date
                               /\ a.time = data.time
                               /\ a.status = "active"
    THEN /\ response' = Done("create_appointment", "error")
         /\ UNCHANGED <<appointments, nextAppointmentId>>
    ELSE /\ appointments' = appointments \cup
                {[id |-> nextAppointmentId,
                  specialist_id |-> data.specialist_id,
                  date |-> data.date,
                  time |-> data.time,
                  service_id |-> data.service_id,
                  status |-> data.status]}
         /\ nextAppointmentId' = nextAppointmentId + 1
         /\ response' = Done("create_appointment", "ok")

\* Appointments(**appointment_data.dict()); add; commit.  Nothing is checked.
InsertAppointment(data) ==
    /\ appointments' = appointments \cup
           {[id |-> nextAppointmentId,
             specialist_id |-> data.specialist_id,
             date |-> data.date,
             time |-> data.time,
             service_id |-> data.service_id,
             status |-> data.status]}
    /\ nextAppointmentId' = nextAppointmentId + 1
    /\ response' = Done("create_appointment", "ok")

create_appointment(data) ==
    /\ nextAppointmentId <= MaxAppointments
    /\ InsertAppointment(data)
    /\ UNCHANGED <<grafik, nextGrafikId, pc, seen, others>>

\* Mutant: cancel toggles the status, a cancelled appointment is restored.
cancel_appointment_toggle(appointment_id) ==
    /\ LET found == {a \in appointments : a.id = appointment_id}
       IN  IF found = {}
           THEN /\ response' = Done("cancel_appointment", "ValueError")
                /\ UNCHANGED appointments
           ELSE /\ appointments' = (appointments \ found) \cup
                       {[a EXCEPT !.status = IF @ = "active" THEN "cancelled" ELSE "active"] :
                            a \in found}
                /\ response' = Done("cancel_appointment", "ok")
    /\ UNCHANGED <<grafik, nextGrafikId, nextAppointmentId, pc, seen, others>>

cancel_appointment(appointment_id) ==
    /\ LET found == {a \in appointments : a.id = appointment_id}
       IN  IF found = {} \/ (\E a \in found : a.status # "active")
           THEN /\ response' = Done("cancel_appointment", "ValueError")
                /\ UNCHANGED appointments
           ELSE /\ appointments' = (appointments \ found) \cup
                       {[a EXCEPT !.status = "cancelled"] : a \in found}
                /\ response' = Done("cancel_appointment", "ok")
    /\ UNCHANGED <<grafik, nextGrafikId, nextAppointmentId, pc, seen, others>>

delete_appointment(appointment_id) ==
    /\ LET found == {a \in appointments : a.id = appointment_id}
       IN  IF found = {}
           THEN /\ response' = Done("delete_appointment", "ValueError")
                /\ UNCHANGED appointments
           ELSE /\ appointments' = appointments \ found
                /\ response' = Done("delete_appointment", "ok")
    /\ UNCHANGED <<grafik, nextGrafikId, nextAppointmentId, pc, seen, others>>

(***************************************************************************)
(* Specification of the appointment table: appointments are created,       *)
(* cancelled, deleted and the free slots of D1 queried, against a rule     *)
(* store that holds one rule.                                              *)
(***************************************************************************)
RuleSetups ==
    {{[id |-> 1, specialist_id |-> Specialist, day_of_week |-> NoDay, specific_date |-> D1,
       grafik_type |-> "available_slots", start_time |-> NoStr, end_time |-> NoStr,
       time_slots |-> <<HM(9, 0), HM(9, 30), HM(23, 0)>>]},
     {[id |-> 1, specialist_id |-> Specialist, day_of_week |-> 1, specific_date |-> NoStr,
       grafik_type |-> "work_schedule", start_time |-> HM(9, 0), end_time |-> HM(11, 0),
       time_slots |-> <<>>]}}

BookingDurationInputs == {0, 30, 60}

InitBooking ==
    /\ grafik \in RuleSetups
    /\ nextGrafikId = 2
    /\ appointments = {}
    /\ nextAppointmentId = 1
    /\ response = Idle
    /\ pc = <<>>
    /\ seen = <<>>
    /\ OthersEmpty

NextBooking ==
    \/ \E data \in AppointmentInputs : create_appointment(data)
    \/ \E id \in 1..MaxAppointments : cancel_appointment(id)
    \/ \E id \in 1..MaxAppointments : delete_appointment(id)
    \/ \E d \in BookingDurationInputs : get_available_time(Specialist, D1, 0, d)

SpecBooking == InitBooking /\ [][NextBooking]_vars

(***************************************************************************)
(* AppointmentService.reschedule_appointment, and the specification of     *)
(* moving appointments: appointments are created on D1, moved between D1   *)
(* and D2, cancelled, and the free slots of both dates queried.  The       *)
(* response of an accepted move records where the appointment was.         *)
(***************************************************************************)
\* Mutant: the move is refused when the new time is taken by another active
\* appointment of the specialist.
reschedule_appointment_checked(appointment_id, reschedule_data) ==
    /\ LET found == {a \in appointments : a.id = appointment_id}
       IN  IF found = {} \/ (\E a \in found : a.status # "active")
           THEN /\ response' = Done("reschedule_appointment", "ValueError")
                /\ UNCHANGED appointments
           ELSE IF \E a \in found, b \in appointments :
                       /\ b.id # a.id
                       /\ b.specialist_id = a.specialist_id
                       /\ b.date = reschedule_data.new_date
                       /\ b.time = reschedule_data.new_time
                       /\ b.status = "active"
           THEN /\ response' = Done("reschedule_appointment", "ValueError")
                /\ UNCHANGED appointments
           ELSE /\ appointments' = (appointments \ found) \cup
                       {[a EXCEPT !.date = reschedule_data.new_date,
                                  !.time = reschedule_data.new_time,
                                  !.service_id = IF reschedule_data.service_id # NoService
                                                 THEN reschedule_data.service_id ELSE @] :
                            a \in found}
                /\ response' = [op |-> "reschedule_appointment", status |-> "ok",
                                id |-> appointment_id,
                                old_date |-> (CHOOSE a \in found : TRUE).date,
                                old_time |-> (CHOOSE a \in found : TRUE).time]
    /\ UNCHANGED <<grafik, nextGrafikId, nextAppointmentId, pc, seen, others>>

reschedule_appointment(appointment_id, reschedule_data) ==
    /\ LET found == {a \in appointments : a.id = appointment_id}
       IN  IF found = {} \/ (\E a \in found : a.status # "active")
           THEN /\ response' = Done("reschedule_appointment", "ValueError")
                /\ UNCHANGED appointments
           ELSE /\ appointments' = (appointments \ found) \cup
                       {[a EXCEPT !.date = reschedule_data.new_date,
                                  !.time = reschedule_data.new_time,
                                  !.service_id = IF reschedule_data.service_id # NoService
                                                 THEN reschedule_data.service_id ELSE @] :
                            a \in found}
                /\ response' = [op |-> "reschedule_appointment", status |-> "ok",
                                id |-> appointment_id,
                                old_date |-> (CHOOSE a \in found : TRUE).date,
                                old_time |-> (CHOOSE a \in found : TRUE).time]
    /\ UNCHANGED <<grafik, nextGrafikId, nextAppointmentId, pc, seen, others>>

MoveRules ==
    {[id |-> 1, specialist_id |-> Specialist, day_of_week |-> NoDay, specific_date |-> D1,
      grafik_type |-> "available_slots", start_time |-> NoStr, end_time |-> NoStr,
      time_slots |-> <<HM(9, 0), HM(9, 30), HM(23, 0)>>],
     [id |-> 2, specialist_id |-> Specialist, day_of_week |-> NoDay, specific_date |-> D2,
      grafik_type |-> "available_slots", start_time |-> NoStr, end_time |-> NoStr,
      time_slots |-> <<HM(9, 0), HM(9, 30), HM(23, 0)>>]}

MoveTimeInputs == {HM(9, 0), HM(23, 0)}
MoveDuration == 30

MoveAppointmentInputs ==
    {[specialist_id |-> Specialist, date |-> D1, time |-> t, service_id |-> NoService,
      status |-> "active"] : t \in MoveTimeInputs}

\* Reschedule bodies: new_date, new_time and the optional service_id (0: not
\* in the body).
RescheduleInputs ==
    {[new_date |-> d, new_time |-> t, service_id |-> NoService] :
        d \in {D1, D2}, t \in MoveTimeInputs}
    \cup {[new_date |-> D2, new_time |-> HM(9, 0), service_id |-> 1]}

InitMove ==
    /\ grafik = MoveRules
    /\ nextGrafikId = 3
    /\ appointments = {}
    /\ nextAppointmentId = 1
    /\ response = Idle
    /\ pc = <<>>
    /\ seen = <<>>
    /\ OthersEmpty

NextMove ==
    \/ \E data \in MoveAppointmentInputs : create_appointment(data)
    \/ \E id \in 1..MaxAppointments, data \in RescheduleInputs :
           reschedule_appointment(id, data)
    \/ \E id \in 1..MaxAppointments : cancel_appointment(id)
    \/ \E date \in {D1, D2} : get_available_time(Specialist, date, 0, MoveDuration)

SpecMove == InitMove /\ [][NextMove]_vars

(***************************************************************************)
(* Specification of concurrent booking flows: each client asks for the     *)
(* free slots, picks one of the times it was offered, and then posts the   *)
(* appointment; the two requests of one client are separate API calls.     *)
(***************************************************************************)
Clients == {"c1", "c2"}
FlowDuration == 30

RaceRules ==
    {[id |-> 1, specialist_id |-> Specialist, day_of_week |-> NoDay, specific_date |-> D1,
      grafik_type |-> "available_slots", start_time |-> NoStr, end_time |-> NoStr,
      time_slots |-> <<HM(9, 0), HM(9, 30), HM(10, 0)>>]}

NoChoice == [slots |-> <<>>, time |-> NoStr, service_id |-> NoService]

\* GET /grafik/available-time, then the client picks an offered time
FlowRead(c) ==
    /\ pc[c] = "idle"
    /\ LET result == get_available_time_slots(grafik, appointments, Specialist, D1, 0,
                                              FlowDuration)
       IN  /\ response' = [op |-> "get_available_time_slots",
                           specialist_id |-> Specialist,
                           date |-> D1,
                           day_of_week |-> 0,
                           service_duration |-> FlowDuration,
                           result |-> result,
                           status |-> HttpStatus(result)]
           /\ \E i \in 1..Len(result.slots), sv \in {NoService, 1} :
                 seen' = [seen EXCEPT ![c] = [slots |-> result.slots,
                                              time |-> result.slots[i],
                                              service_id |-> sv]]
    /\ pc' = [pc EXCEPT ![c] = "chosen"]
    /\ UNCHANGED <<grafik, nextGrafikId, appointments, nextAppointmentId, others>>

\* POST /appointments/create with the time picked
FlowCreate(c) ==
    /\ pc[c] = "chosen"
    /\ nextAppointmentId <= MaxAppointments
    /\ InsertAppointment([specialist_id |-> Specialist, date |-> D1, time |-> seen[c].time,
                          service_id |-> seen[c].service_id, status |-> "active"])
    /\ pc' = [pc EXCEPT ![c] = "idle"]
    /\ UNCHANGED <<grafik, nextGrafikId, seen, others>>

InitRace ==
    /\ grafik = RaceRules
    /\ nextGrafikId = 2
    /\ appointments = {}
    /\ nextAppointmentId = 1
    /\ response = Idle
    /\ pc = [c \in Clients |-> "idle"]
    /\ seen = [c \in Clients |-> NoChoice]
    /\ OthersEmpty

NextRace ==
    \/ \E c \in Clients : FlowRead(c)
    \/ \E c \in Clients : FlowCreate(c)

SpecRace == InitRace /\ [][NextRace]_vars

(***************************************************************************)
(* Specification of the inputs the pipeline does not expect: time strings  *)
(* the request validators accept and strptime rejects, dates that are not  *)
(* calendar dates, durations that are not positive, a service without a    *)
(* duration.                                                               *)
(***************************************************************************)
\* "009:00": int("009") = 9 passes validate_time_format, "%H" takes at most
\* two digits
T009 == <<48, 48, 57, 58, 48, 48>>

\* "31.02.2025"
BadDate == DateStr(31, 2, 2025)

InputWorkSchedules ==
    {[specialist_id |-> Specialist, day_of_week |-> NoDay, specific_date |-> D1,
      start_time |-> T009, end_time |-> HM(11, 0)],
     [specialist_id |-> Specialist, day_of_week |-> 1, specific_date |-> NoStr,
      start_time |-> HM(9, 0), end_time |-> HM(11, 0)]}

InputAvailableSlots ==
    {[specialist_id |-> Specialist, day_of_week |-> NoDay, specific_date |-> D1,
      time_slots |-> <<T009, HM(9, 0), HM(9, 30)>>],
     [specialist_id |-> Specialist, day_of_week |-> 1, specific_date |-> NoStr,
      time_slots |-> <<HM(9, 0), HM(9, 30), HM(10, 0)>>]}

InputAppointments ==
    {[specialist_id |-> Specialist, date |-> D1, time |-> T009, service_id |-> NoService,
      status |-> "active"],
     [specialist_id |-> Specialist, date |-> D1, time |-> HM(9, 0), service_id |-> 3,
      status |-> "active"]}

InputDates == {D1, BadDate}
InputDurations == {-30, 0, 30}

InitInput ==
    /\ grafik = {}
    /\ nextGrafikId = 1
    /\ appointments = {}
    /\ nextAppointmentId = 1
    /\ response = Idle
    /\ pc = <<>>
    /\ seen = <<>>
    /\ OthersEmpty

NextInput ==
    \/ \E data \in InputWorkSchedules : create_work_schedule(data)
    \/ \E data \in InputAvailableSlots : create_available_slots(data)
    \/ \E data \in InputAppointments : create_appointment(data)
    \/ \E date \in InputDates, d \in InputDurations :
           get_available_time(Specialist, date, 0, d)

SpecInput == InitInput /\ [][NextInput]_vars

(***************************************************************************)
(* Properties.                                                             *)
(***************************************************************************)
IsQuery == response.op = "get_available_time_slots"
IsGen == response.op = "generate_time_slots"

\* The weekday the query's weekday-scoped lookups are about.
QueryWeekday == IF response.day_of_week # 0 THEN response.day_of_week
                ELSE IsoWeekday(response.date)

RulesOf(kind) == {g \in grafik : g.specialist_id = response.specialist_id /\ g.grafik_type = kind}
DateRules(kind) == {g \in RulesOf(kind) : g.specific_date = response.date}
WeekdayRules(kind) == {g \in RulesOf(kind) : g.day_of_week = QueryWeekday}

BookingsOfQuery == SelectAppointments(appointments, response.specialist_id, response.date)

\* C1: for a work_schedule with start <= end and a duration d > 0,
\* _generate_time_slots returns exactly floor((end - start) / d) slots, the
\* k-th being start + k*d, so every slot s has start <= s and s + d <= end,
\* and the slot after the last one would end after end.
C1_GridExact ==
    IsGen =>
        LET st == Strptime(response.start_time)
            en == Strptime(response.end_time)
            d == response.duration_minutes
            out == response.result
        IN  (st # Invalid /\ en # Invalid /\ st <= en /\ d > 0) =>
                /\ Len(out) = (en - st) \div d
                /\ \A k \in 1..Len(out) :
                      /\ out[k] = Strftime(st + (k - 1) * d)
                      /\ Strptime(out[k]) = st + (k - 1) * d
                      /\ st <= Strptime(out[k])
                      /\ Strptime(out[k]) + d <= en
                /\ st + Len(out) * d + d > en

C1_Witness ==
    /\ IsGen
    /\ response.start_time = HM(9, 0)
    /\ response.end_time = HM(18, 0)
    /\ response.duration_minutes = 60
    /\ Len(response.result) = 9
    /\ response.result[9] = HM(17, 0)

\* The available_slots rule the resolver's precedence selects for the query:
\* the rule of the queried date, else the rule of the queried weekday.
SelectedRules(kind) == IF DateRules(kind) # {} THEN DateRules(kind) ELSE WeekdayRules(kind)

ResultWithout(removed) ==
    get_available_time_slots(grafik \ removed, appointments, response.specialist_id,
                             response.date, response.day_of_week, response.service_duration)

\* C5: within one rule kind, when the specialist has a rule for the queried
\* date, every rule of that kind which is not for that date (the weekday
\* rules) has no influence on the outcome, and a result drawn from that
\* kind is drawn from the date rule.
C5_DateRuleWins ==
    IsQuery =>
        \A kind \in {"available_slots", "work_schedule"} :
            DateRules(kind) # {} =>
                /\ response.result = ResultWithout(RulesOf(kind) \ DateRules(kind))
                /\ (response.result.source = kind =>
                        \E r \in DateRules(kind) : response.result.rule = r.id)

C5_Witness ==
    /\ IsQuery
    /\ response.result.source = "work_schedule"
    /\ \E r \in DateRules("work_schedule"), w \in WeekdayRules("work_schedule") :
          /\ w.specific_date = NoStr
          /\ r.start_time # w.start_time
          /\ response.result.rule = r.id
          /\ response.result.defined_slots = <<HM(10, 0), HM(11, 0)>>

\* C6 (as claimed): whenever an available_slots rule and a work_schedule
\* rule both exist for the queried specialist and date, the work_schedule
\* rule is never looked up and contributes no candidates.
C6_WorkScheduleNeverConsulted ==
    IsQuery =>
        ((/\ SelectedRules("available_slots") # {}
          /\ SelectedRules("work_schedule") # {}) =>
             /\ ~response.result.work_lookup
             /\ response.result.source # "work_schedule")

\* C7: when the specialist has no rule of either kind for the queried date
\* or for the weekday the query is about, the call returns the empty list
\* and does not raise, whatever the duration and the bookings.
C7_NoRuleEmpty ==
    IsQuery =>
        ((\A kind \in {"available_slots", "work_schedule"} :
              DateRules(kind) = {} /\ WeekdayRules(kind) = {}) =>
            /\ ~response.result.raised
            /\ response.result.slots = <<>>)

C7_Witness ==
    /\ IsQuery
    /\ grafik # {}
    /\ BookingsOfQuery # {}
    /\ response.service_duration = 60
    /\ \A kind \in {"available_slots", "work_schedule"} :
          DateRules(kind) = {} /\ WeekdayRules(kind) = {}
    /\ response.result.slots = <<>>
    /\ ~response.result.raised

\* C10 (as claimed): the returned list is in strictly ascending
\* chronological order, hence without duplicates.
C10_ResultAscending ==
    IsQuery =>
        LET out == response.result.slots
        IN  \A i \in 1..(Len(out) - 1) : Strptime(out[i]) < Strptime(out[i + 1])

InSeq(x, sq) == \E i \in 1..Len(sq) : sq[i] = x

\* The duration the overlap test of the last query used.
QueryDuration == IF response.service_duration # 0 THEN response.service_duration
                 ELSE DefaultDuration

\* Candidate c of duration d and booking b intersect as half-open intervals
\* [c, c + d) and [b.start, b.start + b.duration).
Intersects(c, d, b) ==
    /\ Strptime(b.time) < Strptime(c) + d
    /\ Strptime(c) < Strptime(b.time) + BookingDuration(b)

\* C2 (as claimed): every candidate c whose interval [c, c + d), d > 0,
\* intersects the interval of a booking of the same specialist and date is
\* absent from the result, whatever the booking's start and duration.
C2_OverlapRemoved ==
    (IsQuery /\ response.service_duration > 0 /\ ~response.result.raised) =>
        \A i \in 1..Len(response.result.defined_slots) :
            \A b \in BookingsOfQuery :
                (b.status = "active"
                 /\ Intersects(response.result.defined_slots[i], response.service_duration, b))
                    => ~InSeq(response.result.defined_slots[i], response.result.slots)

KeptByQuery(c) == InSeq(c, response.result.slots)

\* C3: a candidate c whose interval intersects the interval of no booking
\* handed to the overlap filter (c + d <= b.start or c >= b.start +
\* b.duration for each) is retained, and the retained candidates keep
\* their original order.
C3_NoOverlapKept ==
    (IsQuery /\ ~response.result.raised) =>
        /\ \A i \in 1..Len(response.result.defined_slots) :
              (\A b \in BookingsOfQuery :
                   ~Intersects(response.result.defined_slots[i], QueryDuration, b))
                  => KeptByQuery(response.result.defined_slots[i])
        /\ response.result.slots = SelectSeq(response.result.defined_slots, KeptByQuery)

C3_Witness ==
    /\ IsQuery
    /\ response.service_duration = 30
    /\ response.result.defined_slots = <<HM(9, 0), HM(9, 30), HM(10, 0), HM(10, 30)>>
    /\ \E b \in BookingsOfQuery : b.time = HM(9, 30) /\ BookingDuration(b) = 30
    /\ response.result.slots = <<HM(9, 0), HM(10, 0), HM(10, 30)>>

\* C8 (as claimed): only active appointments occupy time; a candidate whose
\* interval intersects a cancelled appointment and no active one is
\* returned.
C8_CancelledFreesSlot ==
    (IsQuery /\ ~response.result.raised) =>
        \A i \in 1..Len(response.result.defined_slots) :
            (/\ \E a \in BookingsOfQuery :
                    /\ a.status = "cancelled"
                    /\ Intersects(response.result.defined_slots[i], QueryDuration, a)
             /\ \A b \in BookingsOfQuery :
                    b.status = "active"
                        => ~Intersects(response.result.defined_slots[i], QueryDuration, b))
                => KeptByQuery(response.result.defined_slots[i])

\* C9: a booking flow that was offered a time and posts the appointment is
\* never refused: create_appointment stores an active appointment at that
\* time whatever the table already holds; so two flows that both saw the
\* time free leave two active appointments of one specialist, date, time.
C9_CreateNeverRefused ==
    [][\A c \in Clients :
         (pc[c] = "chosen" /\ pc'[c] = "idle") =>
             \E a \in appointments' \ appointments :
                 /\ a.specialist_id = Specialist
                 /\ a.date = D1
                 /\ a.time = seen[c].time
                 /\ InSeq(a.time, seen[c].slots)
                 /\ a.status = "active"]_vars

C9_Witness ==
    \E a \in appointments, b \in appointments :
        /\ a.id # b.id
        /\ a.specialist_id = b.specialist_id
        /\ a.date = b.date
        /\ a.time = b.time
        /\ a.status = "active"
        /\ b.status = "active"
        /\ \A c \in Clients : pc[c] = "idle" /\ seen[c].time = a.time

\* C11 (as claimed): a service duration that is not positive is rejected as
\* an input error: the call raises instead of returning a list.
C11_NonPositiveDurationRejected ==
    (IsQuery /\ response.service_duration < 0) => response.result.raised

\* The time strings the last query consumed: the entries of the selected
\* available_slots list, the hours of the work_schedule rule it generated
\* from, and the times of the appointments of the queried date.
ConsumedTimes ==
    {r.time_slots[i] : <<r, i>> \in
         {<<r, i>> \in grafik \X (1..3) :
              /\ response.result.source = "available_slots"
              /\ r.id = response.result.rule
              /\ i <= Len(r.time_slots)}}
    \cup {r.start_time : r \in {r \in grafik : /\ response.result.work_lookup
                                                /\ r \in SelectedRules("work_schedule")
                                                /\ response.service_duration # 0}}
    \cup {r.end_time : r \in {r \in grafik : /\ response.result.work_lookup
                                              /\ r \in SelectedRules("work_schedule")
                                              /\ response.service_duration # 0}}
    \cup {b.time : b \in {b \in BookingsOfQuery : response.result.source # "none"}}

\* C12 (as claimed): if a time string consumed by the computation is
\* unparseable, get_available_time_slots fails; it returns no list.
C12_UnparseableTimeRejected ==
    (IsQuery /\ DateIsValid(response.date)) =>
        ((\E t \in ConsumedTimes : Strptime(t) = Invalid) => response.result.raised)

\* C13 (as claimed): a request whose date is not a valid calendar date is
\* answered with a client error (4xx).
C13_BadDateClientError ==
    (IsQuery /\ ~DateIsValid(response.date)) => response.status \in 400..499

\* C14: when only a work_schedule rule applies to the query (the specialist
\* has no available_slots rule for the queried date or weekday and the
\* resolver selects one work_schedule rule) and no service duration is
\* supplied, the call returns the empty list: nothing is generated from the
\* work hours.
C14_WorkHoursNeedDuration ==
    IsQuery =>
        \A r \in grafik :
            (/\ response.service_duration = 0
             /\ DateRules("available_slots") = {}
             /\ WeekdayRules("available_slots") = {}
             /\ SelectedRules("work_schedule") = {r}) =>
                /\ ~response.result.raised
                /\ response.result.slots = <<>>
                /\ response.result.defined_slots = <<>>

C14_Witness ==
    /\ IsQuery
    /\ response.service_duration = 0
    /\ response.date = D1
    /\ BookingsOfQuery = {}
    /\ DateRules("available_slots") = {}
    /\ WeekdayRules("available_slots") = {}
    /\ \E r \in grafik :
          /\ SelectedRules("work_schedule") = {r}
          /\ r.start_time = HM(9, 0)
          /\ r.end_time = HM(11, 0)
    /\ response.result.work_lookup
    /\ response.result.slots = <<>>

\* C15 (as claimed): no two rules of one specialist and one grafik_type
\* share the same specific_date or the same day_of_week.
C15_OneRulePerScope ==
    \A g \in grafik, h \in grafik :
        (g.id # h.id /\ g.specialist_id = h.specialist_id /\ g.grafik_type = h.grafik_type) =>
            /\ ~(g.specific_date # NoStr /\ g.specific_date = h.specific_date)
            /\ ~(g.day_of_week # NoDay /\ g.day_of_week = h.day_of_week)

\* C16 (as claimed): every stored rule has exactly one of day_of_week and
\* specific_date set.
C16_ExactlyOneScope ==
    \A g \in grafik : (g.day_of_week # NoDay) # (g.specific_date # NoStr)

\* C19: the weekday-scoped lookup uses the supplied day_of_week when one is
\* supplied and otherwise the ISO weekday of the queried date (06.01.2025
\* is a Monday, 1); the date-scoped lookup uses the queried date whatever
\* the override.  So a result drawn from a rule is drawn from a rule of
\* the queried date or, when there is none of that kind, of that weekday;
\* a lone available_slots rule of that weekday with slots is the one used;
\* and rules of another date and another weekday have no influence.
C19_WeekdayUsed ==
    IsQuery =>
        /\ response.day_of_week # 0 => QueryWeekday = response.day_of_week
        /\ response.day_of_week = 0 => QueryWeekday = (IF response.date = D1 THEN 1 ELSE 2)
        /\ \A kind \in {"available_slots", "work_schedule"} :
              response.result.source = kind =>
                  \E r \in RulesOf(kind) :
                      /\ r.id = response.result.rule
                      /\ \/ r.specific_date = response.date
                         \/ DateRules(kind) = {} /\ r.day_of_week = QueryWeekday
        /\ \A r \in grafik :
              (/\ DateRules("available_slots") = {}
               /\ WeekdayRules("available_slots") = {r}
               /\ r.time_slots # <<>>) =>
                  /\ response.result.source = "available_slots"
                  /\ response.result.rule = r.id
        /\ response.result =
              ResultWithout({g \in grafik : /\ g.specific_date # response.date
                                            /\ g.day_of_week # QueryWeekday})

C19_Witness ==
    /\ IsQuery
    /\ response.date = D2
    /\ response.day_of_week = 1
    /\ IsoWeekday(response.date) = 2
    /\ response.result.source = "available_slots"
    /\ \E r \in grafik :
          /\ r.id = response.result.rule
          /\ r.day_of_week = 1
          /\ r.specific_date = NoStr
          /\ response.result.slots = r.time_slots

\* The rules of the kind that have the scope of a create request: the same
\* specific_date, or the same day_of_week when the request has no date.
SameScopeRules(data, kind) ==
    {g \in grafik : /\ g.specialist_id = data.specialist_id
                    /\ g.grafik_type = kind
                    /\ IF data.specific_date # NoStr
                       THEN g.specific_date = data.specific_date
                       ELSE g.day_of_week = data.day_of_week}

\* C20 (as claimed): create_work_schedule (resp. create_available_slots)
\* with a valid body, for a specialist who already has a rule of that kind
\* with the same scope, fails with ValueError and leaves the stored rules
\* unchanged.
C20_DuplicateCreateRefused ==
    [][/\ \A data \in WorkScheduleInputs :
             (/\ create_work_schedule(data)
              /\ WorkScheduleCreateValid(data)
              /\ SameScopeRules(data, "work_schedule") # {}) =>
                 /\ response' = Done("create_work_schedule", "ValueError")
                 /\ grafik' = grafik
       /\ \A data \in AvailableSlotsInputs :
             (/\ create_available_slots(data)
              /\ AvailableSlotsCreateValid(data)
              /\ SameScopeRules(data, "available_slots") # {}) =>
                 /\ response' = Done("create_available_slots", "ValueError")
                 /\ grafik' = grafik]_vars

ClaimedDuration(b) ==
    IF b.service_id = NoService \/ ServiceDuration(b.service_id) = 0
    THEN 60
    ELSE ServiceDuration(b.service_id)

\* C18 (as claimed): the occupied interval the filter is given for a
\* booking is [time, time + D) with D the duration above.
C18_OccupiedInterval ==
    (IsQuery /\ ~response.result.raised /\ response.result.source # "none") =>
        LET rows == RowsById(BookingsOfQuery)
            busy == response.result.busy_intervals
        IN  /\ Len(busy) = Len(rows)
            /\ \A i \in 1..Len(rows) :
                  /\ Strptime(busy[i][1]) = Strptime(rows[i].time)
                  /\ Strptime(busy[i][2]) = Strptime(rows[i].time) + ClaimedDuration(rows[i])

\* The active appointments, after the step, that occupy candidate c of the
\* date and duration of the query the step made.
BlockersAfter(c) ==
    {b \in appointments' : /\ b.specialist_id = response'.specialist_id
                           /\ b.date = response'.date
                           /\ b.status = "active"
                           /\ Strptime(b.time) < Strptime(c) + response'.service_duration
                           /\ Strptime(c) < Strptime(b.time) + BookingDuration(b)}

\* C21 (as claimed): in the query that follows an accepted reschedule of an
\* appointment from (D1, t1) to (D2, t2), asked for D2 every candidate
\* overlapping the appointment's interval at t2 is omitted, and asked for D1
\* the candidate t1 is offered when no active appointment overlaps it.
C21_MovedBookingBlocksNewDate ==
    [][(/\ response.op = "reschedule_appointment"
        /\ response.status = "ok"
        /\ IsQuery'
        /\ ~response'.result.raised) =>
           LET cands == response'.result.defined_slots
               kept == response'.result.slots
           IN  /\ \A i \in 1..Len(cands) :
                     (\E b \in BlockersAfter(cands[i]) : b.id = response.id)
                         => ~InSeq(cands[i], kept)
               /\ (/\ response'.date = response.old_date
                   /\ InSeq(response.old_time, cands)
                   /\ BlockersAfter(response.old_time) = {})
                      => InSeq(response.old_time, kept)]_vars

\* C22: cancel_appointment on a missing appointment or on one that is not
\* active answers ValueError and changes nothing; on an active one it
\* changes that appointment's status to 'cancelled' and nothing else; and
\* no step of cancel or reschedule turns a status that is not 'active' into
\* 'active'.
C22_CancelOnlyActive ==
    [][/\ \A id \in 1..MaxAppointments :
             (response'.op = "cancel_appointment" /\ cancel_appointment(id)) =>
                 LET found == {a \in appointments : a.id = id}
                 IN  IF found = {} \/ (\E a \in found : a.status # "active")
                     THEN /\ response' = Done("cancel_appointment", "ValueError")
                          /\ appointments' = appointments
                     ELSE /\ response' = Done("cancel_appointment", "ok")
                          /\ appointments' = (appointments \ found) \cup
                                 {[a EXCEPT !.status = "cancelled"] : a \in found}
       /\ (response'.op \in {"cancel_appointment", "reschedule_appointment"}) =>
             \A a \in appointments, b \in appointments' :
                 (a.id = b.id /\ a.status # "active") => b = a]_vars

C22_Witness ==
    /\ response = Done("cancel_appointment", "ValueError")
    /\ Cardinality(appointments) = MaxAppointments
    /\ \A a \in appointments : a.status = "cancelled"

\* C23: reschedule_appointment on a missing or non-active appointment
\* answers ValueError and changes no field; on an active one it is always
\* accepted, also when another active appointment already has the new date
\* and time: date and time become the requested values, service_id the
\* requested one if the body has one, status stays 'active' and every other
\* appointment is untouched.
C23_RescheduleOnlyActive ==
    [][\A id \in 1..MaxAppointments, data \in RescheduleInputs :
          (response'.op = "reschedule_appointment" /\ reschedule_appointment(id, data)) =>
              LET found == {a \in appointments : a.id = id}
              IN  IF found = {} \/ (\E a \in found : a.status # "active")
                  THEN /\ response'.status = "ValueError"
                       /\ appointments' = appointments
                  ELSE /\ response'.status = "ok"
                       /\ \E a \in found, b \in appointments' :
                             /\ b.id = id
                             /\ b.date = data.new_date
                             /\ b.time = data.new_time
                             /\ b.status = "active"
                             /\ b.specialist_id = a.specialist_id
                             /\ b.service_id \in {a.service_id, data.service_id}
                             /\ appointments' \ {b} = appointments \ found]_vars

C23_Witness ==
    /\ response.op = "reschedule_appointment"
    /\ response.status = "ok"
    /\ \E a \in appointments, b \in appointments :
          /\ a.id = response.id
          /\ b.id # a.id
          /\ a.date = b.date
          /\ a.time = b.time
          /\ a.status = "active"
          /\ b.status = "active"
          /\ <<response.old_date, response.old_time>> # <<a.date, a.time>>

(***************************************************************************)
(* Subscription billing: the subscription table, SubscriptionService and   *)
(* the payment provider's webhook (app/api/subscriptions.py).              *)
(* A datetime is the clock value in seconds; NoTime is NULL.               *)
(***************************************************************************)
NoTime == -1
NoText == ""
SecondsPerDay == 86400

\* The subscription_plans table (seed data): plan_type, duration_days, is_active.
subscription_plans ==
    {[plan_type |-> "month", duration_days |-> 30, is_active |-> TRUE],
     [plan_type |-> "year", duration_days |-> 365, is_active |-> TRUE]}

\* get_plan_info: the active plan of that type, or None.
get_plan_info(plan_type) ==
    {p \in subscription_plans : p.plan_type = plan_type /\ p.is_active}

\* get_current_subscription: scalar_one_or_none over the specialist's rows;
\* what it returns is SubscriptionResponse.model_validate(row), a value
\* object built from the row, not the mapped row.
get_current_subscription(table, specialist_id) ==
    LET rows == {r \in table : r.specialist_id = specialist_id}
    IN  [raised |-> Cardinality(rows) > 1,
         found  |-> Cardinality(rows) = 1,
         copy   |-> IF Cardinality(rows) = 1 THEN CHOOSE r \in rows : TRUE ELSE [id |-> 0]]

\* create_trial_subscription: refuses when a subscription exists, otherwise
\* adds a 14-day trial row.
create_trial_subscription(specialist_id) ==
    /\ LET existing == get_current_subscription(subscription, specialist_id)
       IN  IF existing.raised
           THEN /\ response' = Done("create_trial_subscription", "MultipleResultsFound")
                /\ UNCHANGED subscription
           ELSE IF existing.found
           THEN /\ response' = Done("create_trial_subscription", "ValueError")
                /\ UNCHANGED subscription
           ELSE /\ subscription' = subscription \cup
                       {[id |-> Cardinality(subscription) + 1,
                         specialist_id |-> specialist_id,
                         plan_type |-> "month",
                         status |-> "trial",
                         start_date |-> NoTime,
                         end_date |-> NoTime,
                         trial_start_date |-> now,
                         trial_end_date |-> now + 14 * SecondsPerDay,
                         payment_id |-> NoText,
                         amount_paid |-> 0]}
                /\ response' = Done("create_trial_subscription", "ok")
    /\ UNCHANGED <<grafik, nextGrafikId, appointments, nextAppointmentId, pc, seen,
                   deliveries, login_codes, outbox, now>>

\* activate_subscription.  The object whose fields are assigned is the
\* SubscriptionResponse returned by get_current_subscription, so the commit
\* has nothing to write and the table is left as it was; refresh() of an
\* object that is not mapped raises.  The result names the exception, the
\* table after the call and whether the assignments were executed.
activate_subscription(table, specialist_id, plan_type, payment_id, amount_paid, clock) ==
    LET cur == get_current_subscription(table, specialist_id)
        plan_info == get_plan_info(plan_type)
    IN  IF cur.raised
        THEN [exc |-> "MultipleResultsFound", table |-> table, assigned |-> FALSE]
        ELSE IF ~cur.found
        THEN [exc |-> "ValueError", table |-> table, assigned |-> FALSE]
        ELSE IF plan_info = {}
        THEN [exc |-> "ValueError", table |-> table, assigned |-> FALSE]
        ELSE LET plan == CHOOSE p \in plan_info : TRUE
                 edited == [cur.copy EXCEPT !.plan_type = plan_type,
                                            !.status = "active",
                                            !.start_date = clock,
                                            !.end_date = clock + plan.duration_days * SecondsPerDay,
                                            !.payment_id = payment_id,
                                            !.amount_paid = amount_paid]
             IN  [exc |-> "UnmappedInstanceError", table |-> table, assigned |-> TRUE,
                  copy |-> edited]

\* int(Decimal(str(amount_value)) * 100) for the amounts "rubles" and
\* "rubles.kopecks" (digits beyond the second are cut); Invalid otherwise.
AmountKopecks(s) ==
    LET parts == Split(s, Dot)
    IN  IF Len(parts) = 1 /\ IsIntStr(parts[1]) THEN IntVal(parts[1]) * 100
        ELSE IF Len(parts) = 2 /\ IsIntStr(parts[1]) /\ IsIntStr(parts[2])
        THEN LET frac == parts[2] \o <<Zero, Zero>>
             IN  IntVal(parts[1]) * 100 + IntVal(SubSeq(frac, 1, 2))
        ELSE Invalid

\* send_telegram_notification: FALSE without a chat_id; otherwise the Bot API
\* call either delivers the message or fails (the exception is swallowed and
\* FALSE is returned).
send_telegram_notification(box, message, chat_id, api_ok) ==
    IF chat_id = NoText THEN [sent |-> FALSE, box |-> box]
    ELSE IF api_ok THEN [sent |-> TRUE, box |-> Append(box, [chat_id |-> chat_id, message |-> message])]
    ELSE [sent |-> FALSE, box |-> box]

\* What the handler answers: the HTTP status, the body's status, and which
\* way it went through the activation ("guard" is the already-processed exit).
WebhookAnswer(http, body, activation) == [http |-> http, body |-> body, activation |-> activation]

\* POST /subscriptions/payments/webhook.  confirmed is the status GET
\* /v3/payments/{id} reported (NoText when the payment could not be fetched).
yookassa_webhook_outcome(table, box, payload, confirmed, api_ok, clock) ==
    LET event == IF confirmed = "succeeded" THEN "payment.succeeded"
                 ELSE IF confirmed = "canceled" THEN "payment.canceled"
                 ELSE payload.event
        stay(answer) == [answer |-> answer, table |-> table, box |-> box]
    IN  IF payload.event = NoText THEN stay(WebhookAnswer(400, NoText, "none"))
        ELSE IF payload.event \notin {"payment.succeeded", "payment.canceled"}
        THEN stay(WebhookAnswer(200, "ignored", "none"))
        ELSE IF payload.type # "subscription" THEN stay(WebhookAnswer(200, "ignored", "none"))
        ELSE IF event = "payment.canceled"
        THEN [answer |-> WebhookAnswer(200, "canceled", "none"),
              table |-> table,
              box |-> send_telegram_notification(box, "payment_not_completed",
                                                 payload.telegramId, api_ok).box]
        ELSE IF payload.specialistId = NoText \/ payload.planType = NoText
                \/ payload.payment_id = NoText \/ payload.amount = NoStr
        THEN stay(WebhookAnswer(400, NoText, "none"))
        ELSE IF AmountKopecks(payload.amount) = Invalid
        THEN stay(WebhookAnswer(400, NoText, "none"))
        ELSE LET current == get_current_subscription(table, payload.specialistId)
             IN  IF ~current.raised /\ current.found
                    /\ current.copy.payment_id = payload.payment_id
                 THEN stay(WebhookAnswer(200, "ok", "guard"))
                 ELSE LET act == activate_subscription(table, payload.specialistId,
                                                       payload.planType, payload.payment_id,
                                                       AmountKopecks(payload.amount), clock)
                          way == IF act.assigned THEN "run" ELSE "refused"
                      IN  IF act.exc = "ValueError"
                          THEN [answer |-> WebhookAnswer(200, "ok", way),
                                table |-> act.table, box |-> box]
                          ELSE IF act.exc # NoText
                          THEN [answer |-> WebhookAnswer(500, NoText, way),
                                table |-> act.table, box |-> box]
                          ELSE [answer |-> WebhookAnswer(200, "processed", way),
                                table |-> act.table,
                                box |-> send_telegram_notification(box, "subscription_activated",
                                                                   payload.telegramId, api_ok).box]

yookassa_webhook(payload, confirmed, api_ok) ==
    /\ LET out == yookassa_webhook_outcome(subscription, outbox, payload, confirmed, api_ok, now)
       IN  /\ subscription' = out.table
           /\ outbox' = out.box
           /\ response' = [op |-> "yookassa_webhook", status |-> "ok",
                           payment_id |-> payload.payment_id, answer |-> out.answer]
           /\ deliveries' = Append(deliveries, [payment_id |-> payload.payment_id,
                                                event |-> payload.event,
                                                activation |-> out.answer.activation])
    /\ UNCHANGED <<grafik, nextGrafikId, appointments, nextAppointmentId, pc, seen,
                   login_codes, now>>

(***************************************************************************)
(* Specification of webhook deliveries: the specialist's trial is created, *)
(* and the provider delivers and redelivers notifications of two payments. *)
(***************************************************************************)
MaxDeliveries == 3

Amount100 == <<49, 48, 48, Dot, 48, 48>>

Payment(event, payment_id, plan_type) ==
    [event |-> event, payment_id |-> payment_id, type |-> "subscription",
     specialistId |-> Specialist, planType |-> plan_type, telegramId |-> "chat1",
     amount |-> Amount100]

WebhookInputs ==
    {Payment("payment.succeeded", id, "month") : id \in {"p1", "p2"}}
    \cup {Payment("payment.succeeded", "p1", "week"),
          Payment("payment.canceled", "p2", "month"),
          Payment("payment.waiting_for_capture", "p1", "month"),
          [Payment("payment.succeeded", "p1", "month") EXCEPT !.amount = <<Dot>>]}

ConfirmedInputs == {NoText, "succeeded"}

InitPay ==
    /\ grafik = {}
    /\ nextGrafikId = 1
    /\ appointments = {}
    /\ nextAppointmentId = 1
    /\ response = Idle
    /\ pc = <<>>
    /\ seen = <<>>
    /\ OthersEmpty

NextPay ==
    \/ create_trial_subscription(Specialist)
    \/ \E payload \in WebhookInputs, confirmed \in ConfirmedInputs, api_ok \in BOOLEAN :
           Len(deliveries) < MaxDeliveries /\ yookassa_webhook(payload, confirmed, api_ok)

SpecPay == InitPay /\ [][NextPay]_vars

C25_BookedTimeOmitted ==
    (IsQuery /\ response.service_duration > 0 /\ ~response.result.raised) =>
        \A b \in BookingsOfQuery :
            b.status = "active" => ~InSeq(b.time, response.result.slots)

\* C26: the rule a query selects either has no specific_date or has the
\* query's date as its specific_date.
C26_DateRuleOnlyOnItsDate ==
    (IsQuery /\ ~response.result.raised /\ response.result.rule # 0) =>
        \A g \in grafik :
            g.id = response.result.rule =>
                (g.specific_date = NoStr \/ g.specific_date = response.date)

\* C27: a query with a valid date returns a list whatever rules were stored:
\* no lookup of the query raises.
C27_QueryNeverRaises ==
    (IsQuery /\ DateIsValid(response.date)) => ~response.result.raised

(***************************************************************************)
(* The reminder job, app/cron/send_reminders.py.  A run of                 *)
(* send_reminders_for_date awaits three times: the select, each send, and  *)
(* the commit; other runs may be scheduled at each of them.  A run keeps   *)
(* in seen[r] the rows its session loaded and how far its loop got; the    *)
(* reminder_sent flags it sets stay in its session until the commit.       *)
(***************************************************************************)
Runs == {"r1", "r2"}

ReminderMessage(appt) == [kind |-> "reminder", appointment |-> appt.id]

\* lines 22-31: the active appointments of the date without a reminder
send_reminders_select(r, target_date_str) ==
    /\ pc[r] \in {"idle", "done"}
    /\ LET rows == RowsById({a \in appointments : /\ a.date = target_date_str
                                                  /\ a.status = "active"
                                                  /\ ~a.reminder_sent})
       IN  /\ seen' = [seen EXCEPT ![r] = [rows |-> rows, i |-> 1]]
           /\ pc' = [pc EXCEPT ![r] = IF rows = <<>> THEN "done" ELSE "loop"]
    /\ response' = Done("send_reminders_for_date", "select")
    /\ UNCHANGED <<grafik, nextGrafikId, appointments, nextAppointmentId,
                   subscription, deliveries, login_codes, outbox, now>>

\* lines 33-53: one iteration of the loop; the row is marked whatever
\* send_telegram_notification returned
send_reminders_send(r, api_ok) ==
    /\ pc[r] = "loop"
    /\ LET appt == seen[r].rows[seen[r].i]
           sent == send_telegram_notification(outbox, ReminderMessage(appt), appt.client_id, api_ok)
       IN  /\ outbox' = sent.box
           /\ seen' = [seen EXCEPT ![r].i = @ + 1]
           /\ pc' = [pc EXCEPT ![r] = IF seen[r].i = Len(seen[r].rows) THEN "commit" ELSE "loop"]
    /\ response' = Done("send_reminders_for_date", "send")
    /\ UNCHANGED <<grafik, nextGrafikId, appointments, nextAppointmentId,
                   subscription, deliveries, login_codes, now>>

\* lines 55-56: the commit writes reminder_sent of every row of the loop
send_reminders_commit(r) ==
    /\ pc[r] = "commit"
    /\ LET marked == {seen[r].rows[i].id : i \in 1..Len(seen[r].rows)}
       IN  appointments' = {IF a.id \in marked THEN [a EXCEPT !.reminder_sent = TRUE] ELSE a :
                                a \in appointments}
    /\ pc' = [pc EXCEPT ![r] = "done"]
    /\ response' = Done("send_reminders_for_date", "commit")
    /\ UNCHANGED <<grafik, nextGrafikId, nextAppointmentId, seen,
                   subscription, deliveries, login_codes, outbox, now>>

(***************************************************************************)
(* Specification of the reminder runs: two runs for D1 over a table of     *)
(* three appointments, one of them without a client chat.                  *)
(***************************************************************************)
ReminderRow(id, date, client_id) ==
    [id |-> id, specialist_id |-> Specialist, date |-> date, time |-> HM(9, 0),
     service_id |-> NoService, status |-> "active", client_id |-> client_id,
     reminder_sent |-> FALSE]

ReminderSetups ==
    {{ReminderRow(1, D1, "chat1"), ReminderRow(2, D1, c), ReminderRow(3, D2, "chat3")} :
        c \in {NoText, "chat2"}}

InitRemind ==
    /\ grafik = {}
    /\ nextGrafikId = 1
    /\ appointments \in ReminderSetups
    /\ nextAppointmentId = 4
    /\ response = Idle
    /\ pc = [r \in Runs |-> "idle"]
    /\ seen = [r \in Runs |-> [rows |-> <<>>, i |-> 1]]
    /\ OthersEmpty

NextRemind ==
    \/ \E r \in Runs : send_reminders_select(r, D1)
    \/ \E r \in Runs, api_ok \in BOOLEAN : send_reminders_send(r, api_ok)
    \/ \E r \in Runs : send_reminders_commit(r)

SpecRemind == InitRemind /\ [][NextRemind]_vars

RemindersOf(id) == {i \in 1..Len(outbox) : outbox[i].message = ReminderMessage([id |-> id])}

\* C28: whatever runs of send_reminders_for_date took place, no appointment
\* has been sent more than one reminder, and an appointment whose
\* reminder_sent is set has been sent its reminder.
C28_OneReminderEach ==
    \A a \in appointments :
        /\ Cardinality(RemindersOf(a.id)) <= 1
        /\ a.reminder_sent => RemindersOf(a.id) # {}

(***************************************************************************)
(* Login by one-time code: SpecialistAuthService over the login_codes      *)
(* table (app/services/specialist_auth_service.py).                        *)
(***************************************************************************)
OTP_LENGTH == 6
OTP_TTL_SECONDS == 5 * 60
RESEND_COOLDOWN_SECONDS == 30
MAX_VERIFY_ATTEMPTS == 5

Plus == 43

Digits(s) == SelectSeq(s, IsDigit)

Last10(digits) == IF Len(digits) >= 10 THEN SubSeq(digits, Len(digits) - 9, Len(digits)) ELSE digits

\* _normalize_phone_ru
normalize_phone_ru(phone) ==
    IF Len(Digits(phone)) >= 10 THEN <<Plus, Zero + 7>> \o Last10(Digits(phone)) ELSE phone

\* str(n) of a natural number
RECURSIVE IntStr(_)
IntStr(n) == IF n < 10 THEN <<Zero + n>> ELSE IntStr(n \div 10) \o <<Zero + (n % 10)>>

RECURSIVE Zfill(_, _)
Zfill(s, width) == IF Len(s) >= width THEN s ELSE Zfill(<<Zero>> \o s, width)

\* _generate_otp, n being the number secrets.randbelow drew
generate_otp(n) == Zfill(IntStr(n), OTP_LENGTH)

\* _hash_code: the keyed digest of the code, taken as collision-free
hash_code(code) == [hmac |-> code]

\* "+79001234567"
Phone1 == <<Plus, 55, 57, 48, 48, 49, 50, 51, 52, 53, 54, 55>>

\* The specialist table: one specialist, registered with Phone1.
specialists == {[id |-> 1, user_id |-> Specialist, phone |-> Phone1, chat_id |-> "chat1"]}

\* SpecialistService.get_specialist_by_phone: the specialists stored under one
\* of the spellings of the number.
get_specialist_by_phone(phone) ==
    LET last10 == Last10(Digits(phone))
        candidates == (IF last10 # <<>>
                       THEN {<<Plus, Zero + 7>> \o last10, <<Zero + 7>> \o last10,
                             <<Zero + 8>> \o last10, last10}
                       ELSE {})
                      \cup (IF phone # <<>> THEN {phone} ELSE {})
    IN  {sp \in specialists : sp.phone \in candidates}

\* The select of both operations: the unused codes of the phone and
\* specialist, ORDER BY created_at DESC LIMIT 1 (every row of the latest
\* created_at is a possible answer).
LatestUnused(table, phone, specialist_id) ==
    LET unused == {c \in table : /\ c.phone = phone
                                 /\ c.specialist_id = specialist_id
                                 /\ c.used_at = NoTime}
    IN  {c \in unused : \A o \in unused : o.created_at <= c.created_at}

NewLoginCode(table, specialist, normalized, code) ==
    [id |-> Cardinality(table) + 1,
     specialist_id |-> specialist.id,
     phone |-> normalized,
     code_hash |-> hash_code(code),
     expires_at |-> now + OTP_TTL_SECONDS,
     created_at |-> now,
     used_at |-> NoTime,
     attempts |-> 0,
     last_sent_at |-> now]

\* send_telegram_message: the Bot API call delivers the text or fails (False)
send_telegram_message(box, chat_id, text, api_ok) ==
    IF api_ok THEN Append(box, [chat_id |-> chat_id, message |-> text]) ELSE box

\* Mutant: the previous active code is not invalidated.
request_code_keep(phone, n, api_ok) ==
    /\ LET normalized == normalize_phone_ru(phone)
           found == get_specialist_by_phone(normalized)
       IN  IF found = {}
           THEN /\ response' = Done("request_code", "no_specialist")
                /\ UNCHANGED <<login_codes, outbox>>
           ELSE LET specialist == CHOOSE sp \in found : TRUE
                    last == LatestUnused(login_codes, normalized, specialist.id)
                IN  IF \E c \in last : c.last_sent_at # NoTime
                                       /\ now - c.last_sent_at < RESEND_COOLDOWN_SECONDS
                    THEN /\ response' = Done("request_code", "cooldown")
                         /\ UNCHANGED <<login_codes, outbox>>
                    ELSE /\ login_codes' = login_codes \cup
                                {NewLoginCode(login_codes, specialist, normalized, generate_otp(n))}
                         /\ outbox' = send_telegram_message(outbox, specialist.chat_id,
                                          [kind |-> "login_code", code |-> generate_otp(n)], api_ok)
                         /\ response' = Done("request_code", "sent")
    /\ UNCHANGED <<grafik, nextGrafikId, appointments, nextAppointmentId, pc, seen,
                   subscription, deliveries, now>>

\* request_code: nothing for an unknown phone; nothing within the cooldown of
\* the latest unused code; otherwise that code is marked used and a new one
\* is stored and sent.
request_code(phone, n, api_ok) ==
    /\ LET normalized == normalize_phone_ru(phone)
           found == get_specialist_by_phone(normalized)
       IN  IF found = {}
           THEN /\ response' = Done("request_code", "no_specialist")
                /\ UNCHANGED <<login_codes, outbox>>
           ELSE LET specialist == CHOOSE sp \in found : TRUE
                    last == LatestUnused(login_codes, normalized, specialist.id)
                IN  IF \E c \in last : c.last_sent_at # NoTime
                                       /\ now - c.last_sent_at < RESEND_COOLDOWN_SECONDS
                    THEN /\ response' = Done("request_code", "cooldown")
                         /\ UNCHANGED <<login_codes, outbox>>
                    ELSE /\ \E last_code \in (IF last = {} THEN {[id |-> 0]} ELSE last) :
                              login_codes' =
                                  {IF c.id = last_code.id THEN [c EXCEPT !.used_at = now] ELSE c :
                                       c \in login_codes}
                                  \cup {NewLoginCode(login_codes, specialist, normalized,
                                                     generate_otp(n))}
                         /\ outbox' = send_telegram_message(outbox, specialist.chat_id,
                                          [kind |-> "login_code", code |-> generate_otp(n)], api_ok)
                         /\ response' = Done("request_code", "sent")
    /\ UNCHANGED <<grafik, nextGrafikId, appointments, nextAppointmentId, pc, seen,
                   subscription, deliveries, now>>

Refused(why) == [op |-> "verify_code", status |-> why, entry |-> 0]

\* verify_code: the latest unused code of the phone is retired when it has
\* expired or used up its attempts, charged an attempt when the digits
\* differ, and accepted (and retired) otherwise.
verify_code(phone, code) ==
    /\ LET normalized == normalize_phone_ru(phone)
           found == get_specialist_by_phone(normalized)
       IN  IF found = {}
           THEN response' = Refused("no_specialist") /\ UNCHANGED login_codes
           ELSE LET specialist == CHOOSE sp \in found : TRUE
                    latest == LatestUnused(login_codes, normalized, specialist.id)
                    retire(entry) == {IF c.id = entry.id THEN [c EXCEPT !.used_at = now] ELSE c :
                                          c \in login_codes}
                IN  IF latest = {}
                    THEN response' = Refused("no_code") /\ UNCHANGED login_codes
                    ELSE \E entry \in latest :
                           IF entry.expires_at <= now
                           THEN /\ login_codes' = retire(entry)
                                /\ response' = Refused("expired")
                           ELSE IF entry.attempts >= MAX_VERIFY_ATTEMPTS
                           THEN /\ login_codes' = retire(entry)
                                /\ response' = Refused("attempts")
                           ELSE IF hash_code(code) # entry.code_hash
                           THEN /\ login_codes' =
                                       {IF c.id = entry.id THEN [c EXCEPT !.attempts = @ + 1] ELSE c :
                                            c \in login_codes}
                                /\ response' = Refused("mismatch")
                           ELSE /\ login_codes' = retire(entry)
                                /\ response' = [op |-> "verify_code", status |-> "accepted",
                                                entry |-> entry.id]
    /\ UNCHANGED <<grafik, nextGrafikId, appointments, nextAppointmentId, pc, seen,
                   subscription, deliveries, outbox, now>>

\* Time passes.
Tick(seconds) ==
    /\ now' = now + seconds
    /\ response' = Done("clock", "ok")
    /\ UNCHANGED <<grafik, nextGrafikId, appointments, nextAppointmentId, pc, seen,
                   subscription, deliveries, login_codes, outbox>>

(***************************************************************************)
(* Specification of the login flow: codes are requested and verified for   *)
(* the specialist's number in two spellings and for an unknown number,     *)
(* while the clock advances past the cooldown and past the lifetime.       *)
(***************************************************************************)
MaxLoginCodes == 2
MaxClock == 300

\* "89001234567" and "123"
Phone8 == <<56, 57, 48, 48, 49, 50, 51, 52, 53, 54, 55>>
PhoneUnknown == <<49, 50, 51>>

PhoneInputs == {Phone1, Phone8, PhoneUnknown}
OtpDraws == {7, 123456}
CodeInputs == {generate_otp(n) : n \in OtpDraws}
\* The clock advances by half the lifetime of a code: past the cooldown, and
\* in two steps past the expiry.
TickInputs == {OTP_TTL_SECONDS \div 2}

\* The code message is delivered (whether it is has no effect on the table).
LoginSendOutcomes == {TRUE}

InitLogin ==
    /\ grafik = {}
    /\ nextGrafikId = 1
    /\ appointments = {}
    /\ nextAppointmentId = 1
    /\ response = Idle
    /\ pc = <<>>
    /\ seen = <<>>
    /\ OthersEmpty

NextLogin ==
    \/ \E phone \in PhoneInputs, n \in OtpDraws, api_ok \in LoginSendOutcomes :
           Cardinality(login_codes) < MaxLoginCodes /\ request_code(phone, n, api_ok)
    \/ \E phone \in PhoneInputs, code \in CodeInputs : verify_code(phone, code)
    \/ \E seconds \in TickInputs : now + seconds <= MaxClock /\ Tick(seconds)

SpecLogin == InitLogin /\ [][NextLogin]_vars

CodesOf(e) == {c \in login_codes : c.phone = e.phone /\ c.specialist_id = e.specialist_id}

\* C29: the code a verify_code call accepts is the most recently issued code
\* of the phone and specialist, carries the digits presented, and was unused
\* and unexpired at the call; the call retires it, and a retired code is
\* never changed again, so no code is accepted twice and no code superseded
\* by a later issue is accepted.
C29_CodeSingleUse ==
    [][/\ \A phone \in PhoneInputs, code \in CodeInputs :
              (response'.status = "accepted" /\ verify_code(phone, code)) =>
                  \E e \in login_codes :
                      /\ e.id = response'.entry
                      /\ e.phone = normalize_phone_ru(phone)
                      /\ e.code_hash = hash_code(code)
                      /\ e.used_at = NoTime
                      /\ e.expires_at > now
                      /\ \A o \in CodesOf(e) : o.id <= e.id /\ o.created_at <= e.created_at
                      /\ [e EXCEPT !.used_at = now] \in login_codes'
       /\ \A c \in login_codes : c.used_at # NoTime => c \in login_codes']_vars

\* C29 witness: a code was accepted while the table holds an earlier code of
\* the same phone with other digits, issued before it and retired when it
\* was issued.
C29_Witness ==
    /\ response.op = "verify_code"
    /\ response.status = "accepted"
    /\ \E e \in login_codes, o \in login_codes :
          /\ e.id = response.entry
          /\ e.used_at = now
          /\ o \in CodesOf(e)
          /\ o.id < e.id
          /\ o.code_hash # e.code_hash
          /\ o.created_at < e.created_at
          /\ o.used_at = e.created_at

====
